---- MODULE Spec2Model ----
(***************************************************************************)
(* The ingest pipeline of app/main.py: _process_ingest, called by the      *)
(* ingest_api adapter.  Each request is a run; runs interleave at every    *)
(* call that touches something shared: the idempotency store (get_event,   *)
(* set_event), the audit log (log_event) and the actuator                  *)
(* (execute_decision).                                                     *)
(***************************************************************************)
EXTENDS Integers, Sequences, FiniteSets, TLC

\* ------------------------------------------------------------- bounds
\* Requests ever submitted; all of them may be in flight at once.
MaxRuns == 2

Runs == 1..MaxRuns

\* ------------------------------------------------------------- values
None == "None"
\* The Idempotency-Key header: absent, empty, or one of two real keys.
Keys == {None, "", "k1", "k2"}
StoreKeys == {"k1", "k2"}

\* Two canonical ingestion requests that differ in every field.
ReqA ==
    [event_type |-> "support_request", source |-> "api", actor |-> "alice",
     payload |-> {<<"text", "help">>}, metadata |-> {}]
ReqB ==
    [event_type |-> "alert", source |-> "webhook", actor |-> None,
     payload |-> {<<"text", "disk full">>}, metadata |-> {<<"host", "db1">>}]
Requests == {ReqA, ReqB}

NoRequest ==
    [event_type |-> None, source |-> None, actor |-> None,
     payload |-> {}, metadata |-> {}]
\* Python's None where an Event is expected (get_event's miss).
NoEvent ==
    [event_id |-> 0, event_type |-> None, source |-> None, timestamp |-> 0 - 1,
     actor |-> None, payload |-> {}, metadata |-> {}]
NoDecision ==
    [decision_id |-> 0, event_id |-> 0, route |-> None, risk_level |-> None,
     reason |-> None]
NoOutcome == [kind |-> "none"]
NoResult == [kind |-> "none"]

VARIABLES
    pc,              \* where each run is in _process_ingest
    key,             \* the run's idempotency_key argument
    req,             \* the run's ingest_req argument
    existing_event,  \* local of the duplicate branch
    event,           \* local of the new-event branch
    decision,        \* local: route_event's Decision
    outcome,         \* what execute_decision did: an ActionResult or a raise
    result,          \* what the caller got: an IngestResponse or an error
    store,           \* the idempotency store
    audit,           \* the audit log: each run's records in emission order
    executed,        \* the invocations of execute_decision
    clock            \* the last reading of datetime.utcnow()

vars == <<pc, key, req, existing_event, event, decision, outcome, result,
          store, audit, executed, clock>>

\* ------------------------------------------------------------- collaborators
\* app.core.idempotency, app.services.router, app.services.actuator and
\* app.core.logging, as the specification gives their contracts.

\* get(key) -> Event | absent: a lookup with no side effect.
get_event(s, k) == s[k]

\* set(key, event): the first writer wins.
set_event(s, k, e) == IF s[k] = NoEvent THEN [s EXCEPT ![k] = e] ELSE s

\* decide(event) -> Decision: a pure, deterministic function of the Event's
\* content; unrecognised event types map to a default route.  The
\* decision_id is fresh for every call.
route_event(e, id) ==
    [decision_id |-> id,
     event_id |-> e.event_id,
     route |-> IF e.event_type = "support_request" THEN "support_queue" ELSE "manual_review",
     risk_level |-> IF e.event_type = "support_request" THEN "low" ELSE "high",
     reason |-> IF e.event_type = "support_request" THEN "known_type" ELSE "default_route"]

\* execute(event, decision): returns an ActionResult with status executed or
\* noop, or the underlying effect raises.
ActuationOutcomes == {"executed", "noop", "raised"}

execute_decision(e, d, how, id) ==
    IF how = "raised"
    THEN [kind |-> "raised", error |-> "effect failed"]
    ELSE [kind |-> "returned",
          action_id |-> id,
          event_id |-> e.event_id,
          decision_id |-> d.decision_id,
          action_type |-> d.route,
          status |-> how,
          artifact_path |-> IF how = "executed" THEN "artifact" ELSE None,
          reason |-> IF how = "executed" THEN "done" ELSE "risk_gated"]

\* log_event(logger, event_name, fields): one record appended to the log.
\* The log is kept per emitting request; the order of the records of
\* different requests is not kept.
log_event(log, r, name, fields) ==
    [log EXCEPT ![r] = Append(@, [event_name |-> name, fields |-> fields])]

\* ------------------------------------------------------------- _process_ingest
\* `if not idempotency_key`: None and "" are both falsy.
MissingKey(k) == k = None \/ k = ""

RejectedFields(rq) ==
    [reason |-> "missing_idempotency_key",
     event_type |-> rq.event_type,
     source |-> rq.source]

\* Faulty variant of MissingKeyError: the rejection is raised as a server error.
MissingKeyError_ServerError ==
    [kind |-> "error", status_code |-> 500, detail |-> "Missing Idempotency-Key header"]

MissingKeyError ==
    [kind |-> "error", status_code |-> 400, detail |-> "Missing Idempotency-Key header"]

\* An exception of get_event or set_event is caught nowhere: the request fails.
StoreFailure ==
    [kind |-> "error", status_code |-> 500, detail |-> "store unavailable"]

IngestFields(k, e) ==
    [idempotency_key |-> k,
     event_id |-> e.event_id,
     event_type |-> e.event_type,
     source |-> e.source]

DecisionFields(d) ==
    [decision_id |-> d.decision_id,
     event_id |-> d.event_id,
     route |-> d.route,
     risk_level |-> d.risk_level,
     reason |-> d.reason]

\* Faulty variant of ActionEventName: the status is compared with a value the
\* actuator never returns.
ActionEventName_WrongStatus(status) ==
    IF status = "success" THEN "action_executed" ELSE "action_noop"

ActionEventName(status) ==
    IF status = "executed" THEN "action_executed" ELSE "action_noop"

ActionFields(a) ==
    [action_id |-> a.action_id,
     event_id |-> a.event_id,
     decision_id |-> a.decision_id,
     action_type |-> a.action_type,
     status |-> a.status,
     artifact_path |-> a.artifact_path,
     reason |-> a.reason]

FailedFields(e, d, err) ==
    [event_id |-> e.event_id,
     decision_id |-> d.decision_id,
     route |-> d.route,
     error |-> err]

\* Faulty variant of NewEvent: event_type and source are taken from each
\* other's field.
NewEvent_SwappedFields(rq, id, ts) ==
    [event_id |-> id,
     event_type |-> rq.source,
     source |-> rq.event_type,
     timestamp |-> ts,
     actor |-> rq.actor,
     payload |-> rq.payload,
     metadata |-> rq.metadata]

\* Event(event_id=str(uuid.uuid4()), ..., timestamp=datetime.utcnow(), ...)
NewEvent(rq, id, ts) ==
    [event_id |-> id,
     event_type |-> rq.event_type,
     source |-> rq.source,
     timestamp |-> ts,
     actor |-> rq.actor,
     payload |-> rq.payload,
     metadata |-> rq.metadata]

IngestResponse(e, d) == [kind |-> "response", event |-> e, decision |-> d]

InFlight(r) == pc[r] \notin {"idle", "done"}

Init ==
    /\ pc = [r \in Runs |-> "idle"]
    /\ key = [r \in Runs |-> None]
    /\ req = [r \in Runs |-> NoRequest]
    /\ existing_event = [r \in Runs |-> NoEvent]
    /\ event = [r \in Runs |-> NoEvent]
    /\ decision = [r \in Runs |-> NoDecision]
    /\ outcome = [r \in Runs |-> NoOutcome]
    /\ result = [r \in Runs |-> NoResult]
    /\ store = [k \in StoreKeys |-> NoEvent]
    /\ audit = [r \in Runs |-> <<>>]
    /\ executed = {}
    /\ clock = 0

\* POST /ingest/api: a request arrives and _process_ingest is entered.
ingest_api(r, rq, k) ==
    /\ pc[r] = "idle"
    /\ \A q \in Runs : q < r => pc[q] # "idle"
    /\ pc' = [pc EXCEPT ![r] = "gate1"]
    /\ req' = [req EXCEPT ![r] = rq]
    /\ key' = [key EXCEPT ![r] = k]
    /\ UNCHANGED <<existing_event, event, decision, outcome, result, store,
                   audit, executed, clock>>

\* Faulty variant of RejectMissingKey: the raise is missing, and the call answers
\* with an Event built from the request.
RejectMissingKey_NoRaise(r) ==
    /\ pc[r] = "gate1"
    /\ MissingKey(key[r])
    /\ audit' = log_event(audit, r, "ingest_rejected", RejectedFields(req[r]))
    /\ result' = [result EXCEPT ![r] =
                    IngestResponse(NewEvent(req[r], r, clock), NoDecision)]
    /\ pc' = [pc EXCEPT ![r] = "done"]
    /\ UNCHANGED <<key, req, existing_event, event, decision, outcome, store,
                   executed, clock>>

\* Gate 1: the key is missing: log ingest_rejected, raise HTTPException(400).
RejectMissingKey(r) ==
    /\ pc[r] = "gate1"
    /\ MissingKey(key[r])
    /\ audit' = log_event(audit, r, "ingest_rejected", RejectedFields(req[r]))
    /\ result' = [result EXCEPT ![r] = MissingKeyError]
    /\ pc' = [pc EXCEPT ![r] = "done"]
    /\ UNCHANGED <<key, req, existing_event, event, decision, outcome, store,
                   executed, clock>>

\* Gate 2: existing_event = get_event(idempotency_key); if existing_event: ...
GetEvent(r) ==
    /\ pc[r] = "gate1"
    /\ ~MissingKey(key[r])
    /\ existing_event' = [existing_event EXCEPT ![r] = get_event(store, key[r])]
    /\ pc' = [pc EXCEPT ![r] =
                IF get_event(store, key[r]) # NoEvent THEN "dup_log" ELSE "new_log"]
    /\ UNCHANGED <<key, req, event, decision, outcome, result, store, audit,
                   executed, clock>>

\* get_event raises: nothing in _process_ingest catches it.
GetEventFails(r) ==
    /\ pc[r] = "gate1"
    /\ ~MissingKey(key[r])
    /\ result' = [result EXCEPT ![r] = StoreFailure]
    /\ pc' = [pc EXCEPT ![r] = "done"]
    /\ UNCHANGED <<key, req, existing_event, event, decision, outcome, store,
                   audit, executed, clock>>

\* Faulty variant of DupLogIngest: a duplicate is answered at once, without routing
\* or acting again.
DupLogIngest_ShortCircuit(r) ==
    /\ pc[r] = "dup_log"
    /\ audit' = log_event(audit, r, "ingest_duplicate",
                          IngestFields(key[r], existing_event[r]))
    /\ result' = [result EXCEPT ![r] = IngestResponse(existing_event[r], NoDecision)]
    /\ pc' = [pc EXCEPT ![r] = "done"]
    /\ UNCHANGED <<key, req, existing_event, event, decision, outcome, store,
                   executed, clock>>

\* ---- the duplicate branch
DupLogIngest(r) ==
    /\ pc[r] = "dup_log"
    /\ audit' = log_event(audit, r, "ingest_duplicate",
                          IngestFields(key[r], existing_event[r]))
    /\ pc' = [pc EXCEPT ![r] = "dup_route"]
    /\ UNCHANGED <<key, req, existing_event, event, decision, outcome, result,
                   store, executed, clock>>

\* Faulty variant of DupRoute: the duplicate is routed on the content of the
\* resubmitted request, not on the stored Event.
DupRoute_OnRequest(r) ==
    /\ pc[r] = "dup_route"
    /\ decision' = [decision EXCEPT ![r] =
                      route_event(NewEvent(req[r], r, clock), r)]
    /\ audit' = log_event(audit, r, "decision_created", DecisionFields(decision'[r]))
    /\ pc' = [pc EXCEPT ![r] = "dup_act"]
    /\ UNCHANGED <<key, req, existing_event, event, outcome, result, store,
                   executed, clock>>

\* decision = route_event(existing_event); log decision_created
DupRoute(r) ==
    /\ pc[r] = "dup_route"
    /\ decision' = [decision EXCEPT ![r] = route_event(existing_event[r], r)]
    /\ audit' = log_event(audit, r, "decision_created", DecisionFields(decision'[r]))
    /\ pc' = [pc EXCEPT ![r] = "dup_act"]
    /\ UNCHANGED <<key, req, existing_event, event, outcome, result, store,
                   executed, clock>>

\* Faulty variant of DupAct: a duplicate is not acted on again; a noop is reported.
DupAct_Skipped(r) ==
    /\ pc[r] = "dup_act"
    /\ outcome' = [outcome EXCEPT ![r] =
                     execute_decision(existing_event[r], decision[r], "noop", r)]
    /\ pc' = [pc EXCEPT ![r] = "dup_log_action"]
    /\ UNCHANGED <<key, req, existing_event, event, decision, result, store,
                   audit, executed, clock>>

\* try: action_result = execute_decision(existing_event, decision)
DupAct(r) ==
    /\ pc[r] = "dup_act"
    /\ \E how \in ActuationOutcomes :
         outcome' = [outcome EXCEPT ![r] =
                       execute_decision(existing_event[r], decision[r], how, r)]
    /\ executed' = executed \cup
         {[run |-> r, event_id |-> existing_event[r].event_id,
           decision_id |-> decision[r].decision_id]}
    /\ pc' = [pc EXCEPT ![r] = "dup_log_action"]
    /\ UNCHANGED <<key, req, existing_event, event, decision, result, store,
                   audit, clock>>

\* Faulty variant of DupLogAction: the response carries an Event made from the
\* duplicate request instead of the stored one.
DupLogAction_FreshEvent(r) ==
    /\ pc[r] = "dup_log_action"
    /\ audit' =
         IF outcome[r].kind = "returned"
         THEN log_event(audit, r, ActionEventName(outcome[r].status),
                        ActionFields(outcome[r]))
         ELSE log_event(audit, r, "action_failed",
                        FailedFields(existing_event[r], decision[r], outcome[r].error))
    /\ result' = [result EXCEPT ![r] =
                    IngestResponse(NewEvent(req[r], r, clock), decision[r])]
    /\ pc' = [pc EXCEPT ![r] = "done"]
    /\ UNCHANGED <<key, req, existing_event, event, decision, outcome, store,
                   executed, clock>>

\* Faulty variant of DupLogAction: the except clause logs action_failed and raises
\* again, so the request fails.
DupLogAction_Reraise(r) ==
    /\ pc[r] = "dup_log_action"
    /\ audit' =
         IF outcome[r].kind = "returned"
         THEN log_event(audit, r, ActionEventName(outcome[r].status),
                        ActionFields(outcome[r]))
         ELSE log_event(audit, r, "action_failed",
                        FailedFields(existing_event[r], decision[r], outcome[r].error))
    /\ result' = [result EXCEPT ![r] =
                    IF outcome[r].kind = "returned"
                    THEN IngestResponse(existing_event[r], decision[r])
                    ELSE [kind |-> "error", status_code |-> 500,
                          detail |-> outcome[r].error]]
    /\ pc' = [pc EXCEPT ![r] = "done"]
    /\ UNCHANGED <<key, req, existing_event, event, decision, outcome, store,
                   executed, clock>>

\* log the outcome (action_executed / action_noop, or action_failed in the
\* except clause) and return IngestResponse(event=existing_event, ...)
DupLogAction(r) ==
    /\ pc[r] = "dup_log_action"
    /\ audit' =
         IF outcome[r].kind = "returned"
         THEN log_event(audit, r, ActionEventName(outcome[r].status),
                        ActionFields(outcome[r]))
         ELSE log_event(audit, r, "action_failed",
                        FailedFields(existing_event[r], decision[r], outcome[r].error))
    /\ result' = [result EXCEPT ![r] = IngestResponse(existing_event[r], decision[r])]
    /\ pc' = [pc EXCEPT ![r] = "done"]
    /\ UNCHANGED <<key, req, existing_event, event, decision, outcome, store,
                   executed, clock>>

\* ---- the new-event branch
\* event = Event(...); log ingest_created
NewLogIngest(r) ==
    /\ pc[r] = "new_log"
    /\ clock' = clock + 1
    /\ event' = [event EXCEPT ![r] = NewEvent(req[r], r, clock')]
    /\ audit' = log_event(audit, r, "ingest_created", IngestFields(key[r], event'[r]))
    /\ pc' = [pc EXCEPT ![r] = "new_set"]
    /\ UNCHANGED <<key, req, existing_event, decision, outcome, result, store,
                   executed>>

\* set_event(idempotency_key, event)
SetEvent(r) ==
    /\ pc[r] = "new_set"
    /\ store' = set_event(store, key[r], event[r])
    /\ pc' = [pc EXCEPT ![r] = "new_route"]
    /\ UNCHANGED <<key, req, existing_event, event, decision, outcome, result,
                   audit, executed, clock>>

\* set_event raises: nothing in _process_ingest catches it.
SetEventFails(r) ==
    /\ pc[r] = "new_set"
    /\ result' = [result EXCEPT ![r] = StoreFailure]
    /\ pc' = [pc EXCEPT ![r] = "done"]
    /\ UNCHANGED <<key, req, existing_event, event, decision, outcome, store,
                   audit, executed, clock>>

\* Faulty variant of NewRoute: the Decision is made but decision_created is not logged.
NewRoute_NoLog(r) ==
    /\ pc[r] = "new_route"
    /\ decision' = [decision EXCEPT ![r] = route_event(event[r], r)]
    /\ pc' = [pc EXCEPT ![r] = "new_act"]
    /\ UNCHANGED <<key, req, existing_event, event, outcome, result, store,
                   audit, executed, clock>>

\* decision = route_event(event); log decision_created
NewRoute(r) ==
    /\ pc[r] = "new_route"
    /\ decision' = [decision EXCEPT ![r] = route_event(event[r], r)]
    /\ audit' = log_event(audit, r, "decision_created", DecisionFields(decision'[r]))
    /\ pc' = [pc EXCEPT ![r] = "new_act"]
    /\ UNCHANGED <<key, req, existing_event, event, outcome, result, store,
                   executed, clock>>

\* Faulty variant of NewAct: a raised effect rolls the admission back, removing the
\* key from the store.
NewAct_Rollback(r) ==
    /\ pc[r] = "new_act"
    /\ \E how \in ActuationOutcomes :
         /\ outcome' = [outcome EXCEPT ![r] =
                          execute_decision(event[r], decision[r], how, r)]
         /\ store' = IF how = "raised"
                     THEN [store EXCEPT ![key[r]] = NoEvent]
                     ELSE store
    /\ executed' = executed \cup
         {[run |-> r, event_id |-> event[r].event_id,
           decision_id |-> decision[r].decision_id]}
    /\ pc' = [pc EXCEPT ![r] = "new_log_action"]
    /\ UNCHANGED <<key, req, existing_event, event, decision, result, audit, clock>>

\* try: action_result = execute_decision(event, decision)
NewAct(r) ==
    /\ pc[r] = "new_act"
    /\ \E how \in ActuationOutcomes :
         outcome' = [outcome EXCEPT ![r] =
                       execute_decision(event[r], decision[r], how, r)]
    /\ executed' = executed \cup
         {[run |-> r, event_id |-> event[r].event_id,
           decision_id |-> decision[r].decision_id]}
    /\ pc' = [pc EXCEPT ![r] = "new_log_action"]
    /\ UNCHANGED <<key, req, existing_event, event, decision, result, store,
                   audit, clock>>

\* Faulty variant of NewLogAction: after a raised effect the call never returns (it
\* waits for an effect that does not come).
NewLogAction_Hangs(r) ==
    /\ pc[r] = "new_log_action"
    /\ outcome[r].kind = "returned"
    /\ audit' = log_event(audit, r, ActionEventName(outcome[r].status),
                          ActionFields(outcome[r]))
    /\ result' = [result EXCEPT ![r] = IngestResponse(event[r], decision[r])]
    /\ pc' = [pc EXCEPT ![r] = "done"]
    /\ UNCHANGED <<key, req, existing_event, event, decision, outcome, store,
                   executed, clock>>

\* Faulty variant of NewLogAction: the new-event branch logs action_executed
\* for every returned result.
NewLogAction_AlwaysExecuted(r) ==
    /\ pc[r] = "new_log_action"
    /\ audit' =
         IF outcome[r].kind = "returned"
         THEN log_event(audit, r, "action_executed", ActionFields(outcome[r]))
         ELSE log_event(audit, r, "action_failed",
                        FailedFields(event[r], decision[r], outcome[r].error))
    /\ result' = [result EXCEPT ![r] = IngestResponse(event[r], decision[r])]
    /\ pc' = [pc EXCEPT ![r] = "done"]
    /\ UNCHANGED <<key, req, existing_event, event, decision, outcome, store,
                   executed, clock>>

\* log the outcome and return IngestResponse(event=event, decision=decision)
NewLogAction(r) ==
    /\ pc[r] = "new_log_action"
    /\ audit' =
         IF outcome[r].kind = "returned"
         THEN log_event(audit, r, ActionEventName(outcome[r].status),
                        ActionFields(outcome[r]))
         ELSE log_event(audit, r, "action_failed",
                        FailedFields(event[r], decision[r], outcome[r].error))
    /\ result' = [result EXCEPT ![r] = IngestResponse(event[r], decision[r])]
    /\ pc' = [pc EXCEPT ![r] = "done"]
    /\ UNCHANGED <<key, req, existing_event, event, decision, outcome, store,
                   executed, clock>>

\* A step of _process_ingest in run r.
ProcessIngest(r) ==
    \/ RejectMissingKey(r)
    \/ GetEvent(r)
    \/ GetEventFails(r)
    \/ DupLogIngest(r)
    \/ DupRoute(r)
    \/ DupAct(r)
    \/ DupLogAction(r)
    \/ NewLogIngest(r)
    \/ SetEvent(r)
    \/ SetEventFails(r)
    \/ NewRoute(r)
    \/ NewAct(r)
    \/ NewLogAction(r)

Arrive(r) == \E rq \in Requests, k \in Keys : ingest_api(r, rq, k)

Next == \E r \in Runs : Arrive(r) \/ ProcessIngest(r)

\* Requests handled at any time, interleaved.
Spec == Init /\ [][Next]_vars

\* Requests handled one after another: a request arrives only while no run
\* is in flight.
ArriveAlone(r) == (\A q \in Runs : ~InFlight(q)) /\ Arrive(r)

NextSeq == \E r \in Runs : ArriveAlone(r) \/ ProcessIngest(r)

SpecSeq == Init /\ [][NextSeq]_vars

\* A request that has been accepted by the server is run to its end.
SpecFair == Init /\ [][Next]_vars /\ \A r \in Runs : WF_vars(ProcessIngest(r))

\* ------------------------------------------------------------- POST /ingest/slack
\* Two Slack-shaped requests that differ in every field.
SlackA == [user |-> "bob", text |-> "printer down", channel |-> "C1", ts |-> "100.1"]
SlackB == [user |-> "carol", text |-> "vpn down", channel |-> "C2", ts |-> "200.2"]
SlackRequests == {SlackA, SlackB}

\* Faulty variant of SlackToIngestRequest: the Slack timestamp is left out of
\* the metadata.
SlackToIngestRequest_NoTs(slack) ==
    [event_type |-> "support_request",
     source |-> "slack",
     actor |-> slack.user,
     payload |-> {<<"text", slack.text>>},
     metadata |-> {<<"channel", slack.channel>>}]

\* ingest_req = IngestRequest(event_type="support_request", source="slack", ...)
SlackToIngestRequest(slack) ==
    [event_type |-> "support_request",
     source |-> "slack",
     actor |-> slack.user,
     payload |-> {<<"text", slack.text>>},
     metadata |-> {<<"channel", slack.channel>>, <<"ts", slack.ts>>}]

\* POST /ingest/slack: the Slack payload is translated and _process_ingest is
\* entered with the translation and the header.
ingest_slack(r, slack, k) ==
    /\ pc[r] = "idle"
    /\ \A q \in Runs : q < r => pc[q] # "idle"
    /\ req' = [req EXCEPT ![r] = SlackToIngestRequest(slack)]
    /\ key' = [key EXCEPT ![r] = k]
    /\ pc' = [pc EXCEPT ![r] = "gate1"]
    /\ UNCHANGED <<existing_event, event, decision, outcome, result, store,
                   audit, executed, clock>>

ArriveSlackAlone(r) ==
    /\ \A q \in Runs : ~InFlight(q)
    /\ \E slack \in SlackRequests, k \in Keys : ingest_slack(r, slack, k)

NextSlack == \E r \in Runs : ArriveAlone(r) \/ ArriveSlackAlone(r) \/ ProcessIngest(r)

\* Both endpoints in front of one store, requests one after another.
SpecSlack == Init /\ [][NextSlack]_vars

\* ------------------------------------------------------------- a failing audit log
\* str(e) of the exception log_event raises.
LogFailure == "log unavailable"

\* Duplicate branch, execute_decision returned, and log_event raises while
\* emitting action_executed / action_noop: the call is inside the try, so
\* the except clause logs action_failed and the response is returned.
DupLogActionFails(r) ==
    /\ pc[r] = "dup_log_action"
    /\ outcome[r].kind = "returned"
    /\ audit' = log_event(audit, r, "action_failed",
                          FailedFields(existing_event[r], decision[r], LogFailure))
    /\ result' = [result EXCEPT ![r] = IngestResponse(existing_event[r], decision[r])]
    /\ pc' = [pc EXCEPT ![r] = "done"]
    /\ UNCHANGED <<key, req, existing_event, event, decision, outcome, store,
                   executed, clock>>

\* The same in the new-event branch.
NewLogActionFails(r) ==
    /\ pc[r] = "new_log_action"
    /\ outcome[r].kind = "returned"
    /\ audit' = log_event(audit, r, "action_failed",
                          FailedFields(event[r], decision[r], LogFailure))
    /\ result' = [result EXCEPT ![r] = IngestResponse(event[r], decision[r])]
    /\ pc' = [pc EXCEPT ![r] = "done"]
    /\ UNCHANGED <<key, req, existing_event, event, decision, outcome, store,
                   executed, clock>>

NextLogFail ==
    \E r \in Runs :
        \/ ArriveAlone(r)
        \/ ProcessIngest(r)
        \/ DupLogActionFails(r)
        \/ NewLogActionFails(r)

\* Requests one after another, with an audit log that may fail to take the
\* outcome record.
SpecLogFail == Init /\ [][NextLogFail]_vars

\* ------------------------------------------------------------- observations
\* Run r returned an IngestResponse to its caller.
Responded(r) == pc[r] = "done" /\ result[r].kind = "response"

\* The event names of run r's audit records, in emission order.
Names(r) == [i \in DOMAIN audit[r] |-> audit[r][i].event_name]

\* The audit records named n, as (run, position) pairs.
Records(n) ==
    UNION {{<<r, i>> : i \in {j \in DOMAIN audit[r] : audit[r][j].event_name = n}} : r \in Runs}

\* How many records named n carry event_id e.
CountFor(n, e) ==
    Cardinality({x \in Records(n) : audit[x[1]][x[2]].fields.event_id = e})

CountIn(r, n) == Cardinality({i \in DOMAIN audit[r] : audit[r][i].event_name = n})

\* The Event run r works on, once admitted.
AdmittedEvent(r) == IF existing_event[r] # NoEvent THEN existing_event[r] ELSE event[r]

\* The responded runs that carried key k.
RespondedWith(k) == {r \in Runs : Responded(r) /\ key[r] = k}

First(S) == CHOOSE r \in S : \A q \in S : r <= q

\* ------------------------------------------------------------- C1
\* C1: when the requests run one after another, every response for a key
\* carries the Event the first responding call created from its own request
\* (same event_id, timestamp, event_type, source, actor, payload, metadata),
\* which is the stored one; the content of later requests is ignored.
C1_SequentialIdempotency ==
    \A k \in StoreKeys :
        RespondedWith(k) # {} =>
            LET f == First(RespondedWith(k)) IN
            /\ event[f] = NewEvent(req[f], f, event[f].timestamp)
            /\ store[k] = event[f]
            /\ \A r \in RespondedWith(k) : result[r].event = event[f]

\* Two responses for one key whose requests differed in content.
C1_Witness ==
    \E r1, r2 \in Runs :
        /\ r1 < r2 /\ Responded(r1) /\ Responded(r2)
        /\ key[r1] = key[r2] /\ req[r1] # req[r2]
        /\ result[r2].event.payload = req[r1].payload

\* ------------------------------------------------------------- C2
\* C2: for any interleaving of requests with the same unseen key, all of
\* them return the same Event, and no two of them both find the key absent
\* and both create an Event.
C2_ConcurrentOneEvent ==
    \A r1, r2 \in Runs :
        (r1 # r2 /\ key[r1] = key[r2] /\ ~MissingKey(key[r1])) =>
            /\ (Responded(r1) /\ Responded(r2)) =>
                   result[r1].event.event_id = result[r2].event.event_id
            /\ ~(/\ event[r1] # NoEvent /\ event[r2] # NoEvent
                 /\ result[r1] # StoreFailure /\ result[r2] # StoreFailure)

\* ------------------------------------------------------------- C3
\* C3 as stated: the decision for a key's Event is executed at most once,
\* however many requests carry the key.
C3_ExecutedOncePerKey ==
    \A k \in StoreKeys :
        store[k] # NoEvent =>
            Cardinality({x \in executed : x.event_id = store[k].event_id}) <= 1

\* C3 amended: execute_decision is invoked exactly once in every run that
\* got past routing, the first admission and each duplicate alike, on the
\* run's Event and Decision; so a key's executions number as many as the
\* runs with that key that reached actuation.
C3_ExecutedOncePerRun ==
    /\ \A r \in Runs :
         LET mine == {x \in executed : x.run = r} IN
         IF pc[r] \in {"dup_log_action", "new_log_action"} \/ Responded(r)
         THEN mine = {[run |-> r, event_id |-> AdmittedEvent(r).event_id,
                       decision_id |-> decision[r].decision_id]}
         ELSE mine = {}
    /\ \A k \in StoreKeys :
         Cardinality({x \in executed : key[x.run] = k}) =
         Cardinality({r \in Runs : key[r] = k /\ outcome[r] # NoOutcome})

\* A key submitted twice, its one Event executed twice.
C3_Witness ==
    \E r1, r2 \in Runs :
        /\ r1 # r2 /\ Responded(r1) /\ Responded(r2) /\ key[r1] = key[r2]
        /\ Cardinality({x \in executed : x.event_id = store[key[r1]].event_id}) = 2

\* ------------------------------------------------------------- C4
\* The stages after admission: routing, actuation, the outcome record.
PostAdmission ==
    {"dup_route", "dup_act", "dup_log_action", "new_route", "new_act", "new_log_action"}

C4_Rejected ==
    \A r \in Runs :
        (pc[r] # "idle" /\ MissingKey(key[r])) =>
            /\ pc[r] \in {"gate1", "done"}
            /\ existing_event[r] = NoEvent /\ event[r] = NoEvent
            /\ decision[r] = NoDecision /\ outcome[r] = NoOutcome
            /\ {x \in executed : x.run = r} = {}
            /\ pc[r] = "done" =>
                 /\ result[r].kind = "error" /\ result[r].status_code = 400
                 /\ Len(audit[r]) = 1
                 /\ audit[r][1].event_name = "ingest_rejected"

C4_RejectStep ==
    \A r \in Runs :
        (pc[r] = "gate1" /\ MissingKey(key[r]) /\ pc'[r] # pc[r]) =>
            /\ pc'[r] = "done"
            /\ store' = store
            /\ executed' = executed
            /\ \A q \in Runs : q # r => audit'[q] = audit[q]

\* C4: a call whose key is None or empty ends in a 400 rejection; it reads
\* and writes no store entry, creates no Event, calls neither the router nor
\* the actuator, and emits the one record ingest_rejected; the store is the
\* same after the rejection as before it.
C4_MissingKeyRejection == []C4_Rejected /\ [][C4_RejectStep]_vars

\* A call with an empty key rejected while the store holds an entry.
C4_Witness ==
    \E r \in Runs :
        /\ pc[r] = "done" /\ key[r] = "" /\ result[r] = MissingKeyError
        /\ \E k \in StoreKeys : store[k] # NoEvent

\* ------------------------------------------------------------- C5
\* C5: in either branch, when execute_decision raised, the call still
\* returns its (event, decision) pair, no error reaches the caller, and the
\* run's audit records hold exactly one action_failed and no action_executed
\* or action_noop.
C5_ActuationAbsorbed ==
    \A r \in Runs :
        outcome[r].kind = "raised" =>
            \/ /\ pc[r] \in {"dup_log_action", "new_log_action"}
               /\ CountIn(r, "action_failed") = 0
            \/ /\ Responded(r)
               /\ result[r] = IngestResponse(AdmittedEvent(r), decision[r])
               /\ decision[r] # NoDecision
               /\ CountIn(r, "action_failed") = 1
               /\ CountIn(r, "action_executed") = 0
               /\ CountIn(r, "action_noop") = 0

\* A raised actuation absorbed in the new-event branch and in the duplicate
\* branch.
C5_Witness ==
    \E r1, r2 \in Runs :
        /\ Responded(r1) /\ Responded(r2)
        /\ outcome[r1].kind = "raised" /\ outcome[r2].kind = "raised"
        /\ existing_event[r1] = NoEvent /\ existing_event[r2] # NoEvent

\* ------------------------------------------------------------- C6
C6_Frame ==
    \A r \in Runs :
        (pc[r] \in PostAdmission /\ pc'[r] # pc[r]) => store' = store

C6_Admission ==
    \A r \in Runs :
        /\ (pc[r] \in PostAdmission \/ Responded(r)) => store[key[r]] # NoEvent
        /\ (Responded(r) /\ existing_event[r] # NoEvent) =>
               store[key[r]] = result[r].event
        /\ \A q \in Runs :
               (/\ Responded(r) /\ outcome[r].kind = "raised"
                /\ store[key[r]] = result[r].event
                /\ Responded(q) /\ key[q] = key[r] /\ existing_event[q] # NoEvent)
               => result[q].event = result[r].event

\* C6: no step of routing, actuation or outcome logging changes the store,
\* whether the actuator returned executed, returned noop or raised; a key
\* admitted stays in the store, and after a run whose actuation raised, a
\* resubmission of its key returns the Event the store held for that run.
C6_ActuationKeepsStore == []C6_Admission /\ [][C6_Frame]_vars

\* A new-event run whose actuation raised, then a resubmission of its key.
C6_Witness ==
    \E r, q \in Runs :
        /\ Responded(r) /\ outcome[r].kind = "raised" /\ existing_event[r] = NoEvent
        /\ store[key[r]] = event[r]
        /\ Responded(q) /\ key[q] = key[r] /\ existing_event[q] = event[r]

\* ------------------------------------------------------------- C7
\* C7: when get_event or set_event fails, the request fails, the router and
\* the actuator are not invoked, no decision_created or action_* record is
\* emitted, and no Event is reported as created for the key: the run has no
\* ingest_created record, so the log never reports two created Events for
\* one key.
C7_StoreFailureFabricatesNothing ==
    /\ \A r \in Runs :
         (pc[r] = "done" /\ result[r] = StoreFailure) =>
             /\ decision[r] = NoDecision /\ outcome[r] = NoOutcome
             /\ {x \in executed : x.run = r} = {}
             /\ CountIn(r, "decision_created") = 0
             /\ CountIn(r, "action_executed") = 0
             /\ CountIn(r, "action_noop") = 0
             /\ CountIn(r, "action_failed") = 0
             /\ CountIn(r, "ingest_created") = 0
    /\ \A k \in StoreKeys :
         Cardinality({x \in Records("ingest_created") :
                        audit[x[1]][x[2]].fields.idempotency_key = k}) <= 1

\* ------------------------------------------------------------- C8
\* C8: with the requests run one after another, once n of them have been
\* answered for a key and none is in flight, the audit trail holds for that
\* key's event_id one ingest_created record, n - 1 ingest_duplicate records,
\* n decision_created records and n action outcome records: a duplicate is
\* routed and acted on again, never answered short of that.
C8_DuplicateRerouting ==
    \A k \in StoreKeys :
        (store[k] # NoEvent /\ \A r \in Runs : ~InFlight(r)) =>
            LET e == store[k].event_id
                n == Cardinality(RespondedWith(k))
            IN  /\ n >= 1
                /\ CountFor("ingest_created", e) = 1
                /\ CountFor("ingest_duplicate", e) = n - 1
                /\ CountFor("decision_created", e) = n
                /\ CountFor("action_executed", e) + CountFor("action_noop", e)
                     + CountFor("action_failed", e) = n
                /\ Cardinality({x \in executed : x.event_id = e}) = n
                /\ \A r \in RespondedWith(k) : result[r].decision.decision_id = r

\* The same key submitted twice, both answered.
C8_Witness ==
    \E k \in StoreKeys :
        /\ \A r \in Runs : ~InFlight(r)
        /\ Cardinality(RespondedWith(k)) = 2
        /\ CountFor("decision_created", store[k].event_id) = 2
        /\ CountFor("ingest_duplicate", store[k].event_id) = 1

\* ------------------------------------------------------------- C9
AdmissionName(r) ==
    IF existing_event[r] # NoEvent THEN "ingest_duplicate" ELSE "ingest_created"

ActionNames == {"action_executed", "action_noop", "action_failed"}

\* C9: a run's audit records are, in order, one admission record
\* (ingest_created for a new key, ingest_duplicate for a known one), one
\* decision_created and one action outcome record, each emitted before the
\* next stage is entered; a rejected run's records are the one
\* ingest_rejected.
C9_AuditSequence ==
    \A r \in Runs :
        /\ pc[r] \in {"idle", "gate1", "dup_log", "new_log"} => Names(r) = <<>>
        /\ pc[r] \in {"dup_route", "new_set", "new_route"} =>
               Names(r) = <<AdmissionName(r)>>
        /\ pc[r] \in {"dup_act", "new_act", "dup_log_action", "new_log_action"} =>
               Names(r) = <<AdmissionName(r), "decision_created">>
        /\ Responded(r) =>
               /\ Len(audit[r]) = Len(<<"admission", "decision", "action">>)
               /\ SubSeq(Names(r), 1, 2) = <<AdmissionName(r), "decision_created">>
               /\ Names(r)[Len(audit[r])] \in ActionNames
        /\ (pc[r] = "done" /\ result[r] = MissingKeyError) =>
               Names(r) = <<"ingest_rejected">>

\* A new-event run and a duplicate run, both complete.
C9_Witness ==
    \E r1, r2 \in Runs :
        /\ Responded(r1) /\ Responded(r2)
        /\ Names(r1)[1] = "ingest_created" /\ Names(r2)[1] = "ingest_duplicate"
        /\ Names(r1)[Len(audit[r1])] = "action_failed"
        /\ Names(r2)[Len(audit[r2])] = "action_noop"

\* ------------------------------------------------------------- C10
\* C10: a run that has been admitted (its store operations done) goes on to
\* return its (Event, Decision) pair, whatever the actuation outcome; a run
\* with a key ends, with that pair unless a store operation failed.
C10_TerminalOutput ==
    /\ \A r \in Runs : (pc[r] \in PostAdmission \cup {"dup_log"}) ~> Responded(r)
    /\ \A r \in Runs : (pc[r] = "gate1" /\ ~MissingKey(key[r])) ~> (pc[r] = "done")
    /\ [](\A r \in Runs :
            (pc[r] = "done" /\ ~MissingKey(key[r])) =>
                \/ result[r] = StoreFailure
                \/ /\ outcome[r] # NoOutcome
                   /\ result[r] = IngestResponse(AdmittedEvent(r), decision[r]))

\* Runs that returned their pair after each kind of actuation outcome.
C10_Witness ==
    \E r1, r2 \in Runs :
        /\ Responded(r1) /\ Responded(r2)
        /\ outcome[r1].kind = "raised"
        /\ outcome[r2].kind = "returned" /\ outcome[r2].status = "executed"

\* ------------------------------------------------------------- C11
C11_MappingKept ==
    \A k \in StoreKeys : store[k] # NoEvent => store'[k] = store[k]

C11_SetOnlyAbsent ==
    \A r \in Runs :
        (pc[r] = "new_set" /\ pc'[r] = "new_route") => store[key[r]] = NoEvent

\* C11: once the store maps a key to an Event the mapping is never replaced
\* nor removed, and set_event is only ever applied to a key the store does
\* not hold.
C11_WriteOnce == [][C11_MappingKept /\ C11_SetOnlyAbsent]_vars

C13_DuplicateRoutedOnStored ==
    \A r \in Runs :
        (existing_event[r] # NoEvent /\ decision[r] # NoDecision) =>
            /\ existing_event[r] = store[key[r]]
            /\ decision[r].event_id = store[key[r]].event_id
            /\ \A q \in Runs :
                   (decision[q] # NoDecision /\ AdmittedEvent(q) = existing_event[r]) =>
                       /\ decision[q].route = decision[r].route
                       /\ decision[q].risk_level = decision[r].risk_level

\* A duplicate whose request differs from the first one's in event_type,
\* routed like the first.
C13_Witness ==
    \E r, q \in Runs :
        /\ existing_event[r] # NoEvent /\ decision[r] # NoDecision
        /\ event[q] = existing_event[r] /\ decision[q] # NoDecision
        /\ req[r].event_type # req[q].event_type
        /\ decision[r].decision_id # decision[q].decision_id
        /\ decision[r].route = decision[q].route

C15_Built ==
    \A r \in Runs :
        event[r] # NoEvent =>
            /\ event[r].event_type = req[r].event_type
            /\ event[r].source = req[r].source
            /\ event[r].actor = req[r].actor
            /\ event[r].payload = req[r].payload
            /\ event[r].metadata = req[r].metadata
            /\ event[r].timestamp \in 1..clock
            /\ \A q \in Runs : q # r => event[q].event_id # event[r].event_id
            /\ (Responded(r) /\ existing_event[r] = NoEvent) => result[r].event = event[r]

C15_Stored ==
    \A r \in Runs :
        (pc[r] = "new_set" /\ pc'[r] = "new_route" /\ store[key[r]] = NoEvent) =>
            /\ store'[key[r]] = event[r]
            /\ event'[r] = event[r]

\* C15: the Event made for a key the store does not hold copies event_type,
\* source, actor, payload and metadata from the request and gets an event_id
\* of its own and a timestamp read at admission; that Event is the one
\* passed to set_event, stored under the key, and returned in the response.
C15_NewEventConstruction == []C15_Built /\ [][C15_Stored]_vars

\* A new Event made from the second kind of request, stored and returned.
C15_Witness ==
    \E r \in Runs :
        /\ Responded(r) /\ req[r] = ReqB
        /\ store[key[r]] = event[r] /\ result[r].event = event[r]

\* ------------------------------------------------------------- C16
\* An audit record without the identifiers that are fresh in every run.
Strip(rec) ==
    [event_name |-> rec.event_name,
     fields |-> [f \in DOMAIN rec.fields \ {"decision_id", "action_id"} |-> rec.fields[f]]]

SameOutcome(r1, r2) ==
    /\ outcome[r1].kind = outcome[r2].kind
    /\ outcome[r1].kind = "returned" => outcome[r1].status = outcome[r2].status

\* C16: a new-event run and a duplicate run that work on the same Event
\* with the same actuation outcome emit, after their admission record, the
\* same decision_created record and the same outcome record (the fresh
\* identifiers apart), and return the same Event with a Decision of the same
\* route, risk_level and reason; their admission records have the same
\* fields and differ in name.
C16_BranchesEquivalent ==
    \A r1, r2 \in Runs :
        (/\ Responded(r1) /\ Responded(r2)
         /\ existing_event[r1] = NoEvent /\ existing_event[r2] = event[r1]
         /\ SameOutcome(r1, r2)) =>
            /\ Len(audit[r1]) = Len(audit[r2])
            /\ \A i \in DOMAIN audit[r1] :
                   i > 1 => Strip(audit[r1][i]) = Strip(audit[r2][i])
            /\ audit[r1][1].fields = audit[r2][1].fields
            /\ audit[r1][1].event_name = "ingest_created"
            /\ audit[r2][1].event_name = "ingest_duplicate"
            /\ result[r1].event = result[r2].event
            /\ [result[r1].decision EXCEPT !.decision_id = 0] =
               [result[r2].decision EXCEPT !.decision_id = 0]

\* The two branches on one Event, both with a noop from the actuator.
C16_Witness ==
    \E r1, r2 \in Runs :
        /\ Responded(r1) /\ Responded(r2)
        /\ existing_event[r1] = NoEvent /\ existing_event[r2] = event[r1]
        /\ outcome[r1].kind = "returned" /\ outcome[r1].status = "noop"
        /\ outcome[r2].kind = "returned" /\ outcome[r2].status = "noop"

\* ------------------------------------------------------------- C17
\* The canonical request of a Slack payload.
CanonicalRequest(slack) ==
    [event_type |-> "support_request", source |-> "slack", actor |-> slack.user,
     payload |-> {<<"text", slack.text>>},
     metadata |-> {<<"channel", slack.channel>>, <<"ts", slack.ts>>}]

C17_SameEntry ==
    \A r \in Runs, slack \in SlackRequests, k \in Keys :
        ingest_slack(r, slack, k) => ingest_api(r, CanonicalRequest(slack), k)

C17_SameHandling ==
    \A r \in Runs :
        (pc[r] = "done" /\ req[r].source = "slack") =>
            /\ \E slack \in SlackRequests : req[r] = CanonicalRequest(slack)
            /\ MissingKey(key[r]) =>
                   /\ result[r] = MissingKeyError
                   /\ audit[r] = <<[event_name |-> "ingest_rejected",
                                    fields |-> RejectedFields(req[r])]>>
            /\ (Responded(r) /\ existing_event[r] # NoEvent) =>
                   /\ result[r].event = store[key[r]]
                   /\ audit[r][1] = [event_name |-> "ingest_duplicate",
                                     fields |-> IngestFields(key[r], store[key[r]])]
            /\ (Responded(r) /\ existing_event[r] = NoEvent) =>
                   /\ result[r].event = store[key[r]]
                   /\ audit[r][1] = [event_name |-> "ingest_created",
                                     fields |-> IngestFields(key[r], event[r])]

\* C17: every call of ingest_slack with a Slack payload and a key is, from
\* the same state, the call of ingest_api with the canonical request of that
\* payload and the same key, so what follows is _process_ingest on the same
\* arguments against the same store: a missing key is rejected with the same
\* error and ingest_rejected record, a known key answers with the stored
\* Event, an unseen key gets a new Event built from the canonical request.
C17_SlackSamePipeline == []C17_SameHandling /\ [][C17_SameEntry]_vars

\* A Slack call that reused the Event an API call had stored under its key.
C17_Witness ==
    \E r1, r2 \in Runs :
        /\ Responded(r1) /\ req[r1] \in Requests
        /\ Responded(r2) /\ req[r2] = CanonicalRequest(SlackB)
        /\ existing_event[r2] = event[r1]
        /\ audit[r2][1].event_name = "ingest_duplicate"

\* ------------------------------------------------------------- C18
\* C18: once a request has terminated, each of its ingest_created records
\* naming key k and event_id e has the store mapping k to the Event with
\* event_id e, and no key has more than one ingest_created record.
C18_CreatedImpliesPersisted ==
    /\ \A r \in Runs :
         pc[r] = "done" =>
             \A i \in DOMAIN audit[r] :
                 audit[r][i].event_name = "ingest_created" =>
                     store[audit[r][i].fields.idempotency_key].event_id =
                         audit[r][i].fields.event_id
    /\ \A k \in StoreKeys :
         Cardinality({r \in Runs :
                        /\ key[r] = k
                        /\ CountIn(r, "ingest_created") > 0}) <= 1

\* ------------------------------------------------------------- C19
\* C19: a run has an action_failed record only if execute_decision raised in
\* it, also when the audit log fails to take the outcome record.
C19_FailedOnlyOnRaise ==
    \A r \in Runs :
        CountIn(r, "action_failed") > 0 => outcome[r].kind = "raised"

====
